---- MODULE Spec2Model ----
(***************************************************************************)
(* Model of the Minecraft/Discord bridge bot (the complete iteration of    *)
(* the server: src/unnamed/part_000, lines 1-534).                         *)
(*                                                                         *)
(* The process is a single-threaded event loop.  A handler runs without    *)
(* interruption up to an await; an await on an external call (channel      *)
(* creation, message send, permission grant, interaction reply) suspends   *)
(* that handler only, and the platform later resolves or rejects the call. *)
(* An await on an already settled promise (await getUuidByCode(code))      *)
(* resumes in the microtask queue, before the event loop takes any other   *)
(* event: the model keeps the suspension point and lets no event-loop      *)
(* action run while such a continuation is pending.                        *)
(***************************************************************************)
EXTENDS Integers, Sequences, FiniteSets, TLC

VARIABLES
    uuidChannelMap,     \* Map uuid -> channel id            (part_000:45)
    uuidDiscordMap,     \* Map uuid -> Discord user id       (part_000:46)
    verificationCodes,  \* Map code -> {uuid, expires}       (part_000:47)
    timers,             \* pending setTimeout callbacks      (part_000:231)
    now,                \* Date.now(), in milliseconds
    issues,             \* log of the codes issued: issues[n] is the n-th issuance
    redeemed,           \* per issuance, how many redemptions obtained its uuid
    clientUser,         \* client.user is set (the session is ready)
    guildCached,        \* client.guilds.cache holds GUILD_ID
    adminRole,          \* process.env.ADMIN_ROLE_ID ("" when not configured)
    channels,           \* guild.channels.cache: ids of the live channels
    created,            \* log of the channels created: created[id] is the uuid
                        \* the channel of that id was created for
    chanOverwrites,     \* per channel, the permission overwrites in force
    su,                 \* the /send-update requests in flight, one record per slot
    link,               \* the /linkmc invocations in flight, one record per slot
    out                 \* what the last step let out of its handler, if anything:
                        \* an HTTP response, or a rejection that nothing caught

vars == <<uuidChannelMap, uuidDiscordMap, verificationCodes, timers, now, issues,
          redeemed, clientUser, guildCached, adminRole, channels, created,
          chanOverwrites, su, link, out>>

codeVars == <<verificationCodes, timers, issues, redeemed>>
sessionVars == <<clientUser, guildCached, adminRole>>
platformVars == <<channels, created, chanOverwrites>>

----------------------------------------------------------------------------
(* Bounds of the model *)

MaxChannels == 2        \* channel ids the platform hands out
MaxIssue == 2           \* codes issued over a run
MaxTicks == 2           \* TTL periods the clock runs over

(* Program constants *)

TTL == 300000           \* milliseconds a code lives (part_000:227, 234)

TickMs == TTL            \* the instants of the clock come in periods of one TTL

\* setTimeout counts on the monotonic clock of the event loop and Date.now()
\* reads the wall clock: a timer of delay d set at Date.now() = t can run
\* when Date.now() reads t + d - 1
TimerSkew == 1

\* the instants the clock of the model passes through: 0, then the last
\* millisecond of every period.  A code issued at 0 is seen one millisecond
\* before its expiry and long after it; a code issued later is seen at its
\* expiry and long after it.
NextInstant(t) ==
    IF t = 0 THEN TickMs - TimerSkew ELSE t + TickMs

Uuids == {"u1", "u2"}
UuidInputs == Uuids \cup {""}           \* "" stands for a missing or empty uuid
MessageInputs == {"", "hello"}          \* "" stands for a missing or empty message

\* a uuid field of the JSON body that is truthy and is not a string has no
\* substring method.  A number or true is a Map key by value and converts to
\* a string; an array or an object is a Map key by identity, and every request
\* body is parsed into a new one; an object whose toString is not callable
\* also makes a template literal throw.
NumberUuid == "#12345678"
ArrayUuid == "#[u1]"
OpaqueUuid == "#{toString:0}"

\* the objects the store and the registries hold: the one parsed from the
\* body of the n-th issuance, which no later body is identical to
ArrayRefs == <<"#[u1]@1", "#[u1]@2", "#[u1]@3", "#[u1]@4">>
OpaqueRefs == <<"#{toString:0}@1", "#{toString:0}@2", "#{toString:0}@3",
                "#{toString:0}@4">>
ArrayRefSet == {ArrayRefs[i] : i \in 1..Len(ArrayRefs)}
OpaqueRefSet == {OpaqueRefs[i] : i \in 1..Len(OpaqueRefs)}

\* the value of req.body.uuid as the handler of the n-th issuance holds it
StoredUuid(uuid, n) ==
    IF uuid = ArrayUuid THEN ArrayRefs[n]
    ELSE IF uuid = OpaqueUuid THEN OpaqueRefs[n]
    ELSE uuid

\* typeof uuid === 'string': uuid.substring exists
typeofString(uuid) ==
    uuid \notin {NumberUuid, ArrayUuid, OpaqueUuid} \cup ArrayRefSet \cup OpaqueRefSet

\* `${uuid}` throws a TypeError
ToStringThrows(uuid) == uuid = OpaqueUuid \/ uuid \in OpaqueRefSet

\* the uuid field of the body of a request
BodyUuids == UuidInputs \cup {NumberUuid, ArrayUuid, OpaqueUuid}
Users == {"U1", "U2"}
SendSlots == {"s1", "s2"}               \* /send-update requests in flight at once
LinkSlots == {"l1", "l2"}               \* /linkmc invocations in flight at once
ChannelIds == 1..MaxChannels

GUILD_ID == "guild"                     \* process.env.GUILD_ID; also the @everyone role id
BOT_ID == "bot"                         \* client.user.id
AdminRoles == {"", "admins"}

----------------------------------------------------------------------------
(* Strings: a code is a sequence of characters *)

LowerChars == <<"x", "k", "p", "q", "a", "b">>
UpperChars == <<"X", "K", "P", "Q", "A", "B">>

UpperChar(c) ==
    IF \E i \in 1..Len(LowerChars) : LowerChars[i] = c
    THEN UpperChars[CHOOSE i \in 1..Len(LowerChars) : LowerChars[i] = c]
    ELSE c

\* a string left in the case it was typed or generated in
toUpperCaseNone(s) == s

toUpperCase(s) == [i \in 1..Len(s) |-> UpperChar(s[i])]

\* Math.random().toString(36).substring(2, 8): digits and lower-case letters
RandomStrings == { <<"x", "7", "k", "2", "p", "q">>, <<"a", "7", "b", "2", "q", "x">> }

MixedCase(s) == [i \in 1..Len(s) |-> IF i % 2 = 1 THEN UpperChar(s[i]) ELSE s[i]]

\* what a user may type as the code option of /linkmc
PresentedCodes ==
    RandomStrings
    \cup { MixedCase(s) : s \in RandomStrings }
    \cup { <<"Z", "Z", "Z", "Z", "Z", "Z">> }

----------------------------------------------------------------------------
(* JavaScript Map operations *)

MapHas(m, k) == k \in DOMAIN m
MapSet(m, k, v) == [x \in (DOMAIN m) \cup {k} |-> IF x = k THEN v ELSE m[x]]
MapDelete(m, k) == [x \in (DOMAIN m) \ {k} |-> m[x]]
EmptyMap == <<>>

\* uuidChannelMap.get(uuid): 0 stands for undefined
ChannelIdOf(u) == IF MapHas(uuidChannelMap, u) THEN uuidChannelMap[u] ELSE 0
\* uuidDiscordMap.get(uuid): "" stands for undefined
LinkedUserOf(u) == IF MapHas(uuidDiscordMap, u) THEN uuidDiscordMap[u] ELSE ""
\* guild.channels.cache.get(channelId): 0 stands for undefined
ResolveChannel(id) == IF id \in channels THEN id ELSE 0

----------------------------------------------------------------------------
(* getUuidByCode (part_000:82-93).  The body has no await: the read and    *)
(* the removal are one step.  "" stands for null.                          *)

\* getUuidByCode without the expiry test of line 86
getUuidByCodeResultNoExpiry(codes, code, t) ==
    IF ~MapHas(codes, code) THEN "" ELSE codes[code].uuid

getUuidByCodeResult(codes, code, t) ==
    IF ~MapHas(codes, code) THEN ""
    ELSE IF t > codes[code].expires THEN ""
    ELSE codes[code].uuid

\* getUuidByCode without the removals of lines 87 and 91
getUuidByCodeStoreKeep(codes, code, t) == codes

\* getUuidByCode without the removal of line 91
getUuidByCodeStoreExpiredOnly(codes, code, t) ==
    IF MapHas(codes, code) /\ t > codes[code].expires
    THEN MapDelete(codes, code) ELSE codes

\* getUuidByCode without the removal of line 87
getUuidByCodeStoreFreshOnly(codes, code, t) ==
    IF MapHas(codes, code) /\ t <= codes[code].expires
    THEN MapDelete(codes, code) ELSE codes

getUuidByCodeStore(codes, code, t) ==
    IF ~MapHas(codes, code) THEN codes
    ELSE MapDelete(codes, code)

----------------------------------------------------------------------------
(* Permission overwrites of a new channel (part_000:295-340) *)

BotPermissions == {"ViewChannel", "SendMessages", "EmbedLinks", "ReadMessageHistory",
                   "ManageMessages"}
MemberPermissions == {"ViewChannel", "ReadMessageHistory", "SendMessages"}

Overwrite(id, allow, deny) == [id |-> id, allow |-> allow, deny |-> deny]

AdminOverwrites(role) ==
    IF role # "" THEN << Overwrite(role, MemberPermissions, {}) >> ELSE << >>

\* the overwrites without the block of lines 328-340
LinkedOverwritesNone(linkedDiscordId) == << >>

LinkedOverwrites(linkedDiscordId) ==
    IF linkedDiscordId # ""
    THEN << Overwrite(linkedDiscordId, MemberPermissions, {}) >> ELSE << >>

permissionOverwrites(role, linkedDiscordId) ==
    << Overwrite(GUILD_ID, {}, {"ViewChannel"}),
       Overwrite(BOT_ID, BotPermissions, {}) >>
    \o AdminOverwrites(role)
    \o LinkedOverwrites(linkedDiscordId)

\* channel.permissionOverwrites.create(userId, {...}): adds the overwrite of
\* that subject, replacing one it already has
GrantOverwrite(ows, userId) ==
    SelectSeq(ows, LAMBDA o : o.id # userId)
    \o << Overwrite(userId, MemberPermissions, {}) >>

----------------------------------------------------------------------------
(* Request records *)

\* a /send-update request: the handler's position, its inputs, its local
\* channel (0 for undefined), the overwrites it has passed to
\* guild.channels.create, and counts of what it has done so far
IdleSend == [pc |-> "idle", uuid |-> "", message |-> "",
             channel |-> 0, perms |-> << >>,
             nCreate |-> 0, nWrite |-> 0, nSend |-> 0]

\* The HTTP response a step of /send-update sends, with the request's uuid
\* and counts.  The external calls a step issues show in the request record:
\* the handler waits at the call it has issued.
NoOutput == [kind |-> "none"]

\* the rejected promise of a handler, delivered to process.on('unhandledRejection')
UnhandledRejection == [kind |-> "unhandledRejection"]

Response(r, status, error, channelId) ==
    [kind |-> "response", uuid |-> r.uuid, message |-> r.message,
     status |-> status, error |-> error,
     channelId |-> channelId,
     nCreate |-> r.nCreate, nWrite |-> r.nWrite, nSend |-> r.nSend]

\* a /linkmc invocation: the handler's position, the upper-cased code, the
\* invoking user, the local uuid ("" for null) and the channel it grants on.
\* A local is kept up to the last line that reads it: code to line 132, user
\* and channel to line 155, uuid to line 160.
IdleLink == [pc |-> "idle", code |-> << >>, user |-> "", uuid |-> "", channel |-> 0]

\* requests are told apart by the slot they run in; a new one takes the
\* lowest free slot
SlotIndex == [s1 |-> 1, s2 |-> 2, l1 |-> 1, l2 |-> 2]

LowestFree(recs, slots, x) ==
    /\ recs[x].pc = "idle"
    /\ \A y \in slots : recs[y].pc = "idle" => SlotIndex[x] <= SlotIndex[y]


\* the handler waits for interaction.reply, all its locals read
AwaitReply(pc) == [IdleLink EXCEPT !.pc = pc]

\* a continuation is waiting in the microtask queue
\* a handler that holds the thread while any of its calls is outstanding
MicrotaskPendingAnyAwait ==
    \/ \E l \in DOMAIN link : link[l].pc # "idle"
    \/ \E s \in DOMAIN su : su[s].pc # "idle"

MicrotaskPending == \E l \in DOMAIN link : link[l].pc = "awaitRedeem"

Init ==
    /\ uuidChannelMap = EmptyMap
    /\ uuidDiscordMap = EmptyMap
    /\ verificationCodes = EmptyMap
    /\ timers = {}
    /\ now = 0
    /\ issues = << >>
    /\ redeemed = [i \in 1..MaxIssue |-> 0]
    /\ clientUser = FALSE
    /\ guildCached = FALSE
    /\ adminRole \in AdminRoles
    /\ channels = {}
    /\ created = << >>
    /\ chanOverwrites = EmptyMap
    /\ su = [s \in SendSlots |-> IdleSend]
    /\ link = [l \in LinkSlots |-> IdleLink]
    /\ out = NoOutput

----------------------------------------------------------------------------
(* The chat platform session and the clock *)

\* the 'ready' event: client.user is set
ClientReady ==
    /\ ~MicrotaskPending
    /\ ~clientUser
    /\ clientUser' = TRUE
    /\ out' = NoOutput
    /\ UNCHANGED <<uuidChannelMap, uuidDiscordMap, now, guildCached, adminRole,
                   codeVars, platformVars, su, link>>

\* the guild enters client.guilds.cache
GuildAvailable ==
    /\ ~MicrotaskPending
    /\ clientUser
    /\ ~guildCached
    /\ guildCached' = TRUE
    /\ out' = NoOutput
    /\ UNCHANGED <<uuidChannelMap, uuidDiscordMap, now, clientUser, adminRole,
                   codeVars, platformVars, su, link>>

\* the guild leaves client.guilds.cache (outage, or the bot is removed)
GuildUnavailable ==
    /\ ~MicrotaskPending
    /\ guildCached
    /\ guildCached' = FALSE
    /\ out' = NoOutput
    /\ UNCHANGED <<uuidChannelMap, uuidDiscordMap, now, clientUser, adminRole,
                   codeVars, platformVars, su, link>>

\* a channel is deleted on the platform by someone else
ChannelDeleted(c) ==
    /\ ~MicrotaskPending
    /\ c \in channels
    /\ channels' = channels \ {c}
    /\ chanOverwrites' = MapDelete(chanOverwrites, c)
    /\ out' = NoOutput
    /\ UNCHANGED <<uuidChannelMap, uuidDiscordMap, now, created, codeVars,
                   sessionVars, su, link>>

Tick ==
    /\ ~MicrotaskPending
    /\ NextInstant(now) <= MaxTicks * TickMs
    /\ now' = NextInstant(now)
    /\ out' = NoOutput
    /\ UNCHANGED <<uuidChannelMap, uuidDiscordMap, codeVars, sessionVars,
                   platformVars, su, link>>

----------------------------------------------------------------------------
(* POST /generate-code (part_000:203-247) *)

\* verificationCodes.set(code, {uuid, expires: Date.now() + 300000}); iss names
\* the issuance and is not read by the program
IssueEntry(uuid, t, n) == [uuid |-> uuid, expires |-> t + TTL, iss |-> n]

\* setTimeout(() => verificationCodes.delete(code), 300000)
IssueTimer(code, t, n) == [code |-> code, fireAt |-> t + TTL, iss |-> n]

\* /generate-code without the test of line 213
AlreadyLinkedNever(links, uuid) == FALSE

\* line 213: uuidDiscordMap.has(uuid)
AlreadyLinked(links, uuid) == MapHas(links, uuid)

\* the response, lines 209, 214-218, 238-242 and 245: the handler has no
\* await, so what it answers is decided by the request and the state it
\* finds.  The template literal of line 236 throws for a uuid that has no
\* string form, and the catch of lines 243-246 answers 500.
GenerateCodeResponse(links, uuid, random) ==
    IF uuid = ""
    THEN [status |-> 400, success |-> FALSE, alreadyLinked |-> FALSE,
          code |-> << >>, expiresIn |-> 0]
    ELSE IF AlreadyLinked(links, uuid)
    THEN [status |-> 200, success |-> FALSE, alreadyLinked |-> TRUE,
          code |-> << >>, expiresIn |-> 0]
    ELSE IF ToStringThrows(uuid)
    THEN [status |-> 500, success |-> FALSE, alreadyLinked |-> FALSE,
          code |-> << >>, expiresIn |-> 0]
    ELSE [status |-> 200, success |-> TRUE, alreadyLinked |-> FALSE,
          code |-> toUpperCase(random), expiresIn |-> 300]

\* lines 208 and 213 passed: lines 222-234 run, whatever line 236 does next
ReachesStore(links, uuid) == uuid # "" /\ ~AlreadyLinked(links, uuid)

\* a /generate-code that leaves an entry the store already has for the code
GenerateCodeKeepsLive(uuid, random) ==
    /\ ~MicrotaskPending
    /\ LET code == toUpperCase(random) IN
       /\ out' = NoOutput
       /\ IF ReachesStore(uuidDiscordMap, uuid)
          THEN LET n == Len(issues) + 1
                   stored == StoredUuid(uuid, n)
               IN
               /\ n <= MaxIssue
               /\ issues' = Append(issues, [code |-> code, uuid |-> stored, at |-> now])
               /\ verificationCodes' =
                      IF MapHas(verificationCodes, code) THEN verificationCodes
                      ELSE MapSet(verificationCodes, code, IssueEntry(stored, now, n))
               /\ timers' = timers \cup {IssueTimer(code, now, n)}
          ELSE UNCHANGED <<verificationCodes, timers, issues>>
    /\ UNCHANGED <<uuidChannelMap, uuidDiscordMap, now, redeemed, sessionVars,
                   platformVars, su, link>>

\* a /generate-code that drops the codes the uuid already has
GenerateCodeSingle(uuid, random) ==
    /\ ~MicrotaskPending
    /\ LET code == toUpperCase(random)
           others == [c \in {x \in DOMAIN verificationCodes :
                                 verificationCodes[x].uuid # uuid}
                         |-> verificationCodes[c]]
       IN
       /\ out' = NoOutput
       /\ IF ReachesStore(uuidDiscordMap, uuid)
          THEN LET n == Len(issues) + 1
                   stored == StoredUuid(uuid, n)
               IN
               /\ n <= MaxIssue
               /\ issues' = Append(issues, [code |-> code, uuid |-> stored, at |-> now])
               /\ verificationCodes' = MapSet(others, code, IssueEntry(stored, now, n))
               /\ timers' = timers \cup {IssueTimer(code, now, n)}
          ELSE UNCHANGED <<verificationCodes, timers, issues>>
    /\ UNCHANGED <<uuidChannelMap, uuidDiscordMap, now, redeemed, sessionVars,
                   platformVars, su, link>>

GenerateCode(uuid, random) ==
    /\ ~MicrotaskPending
    /\ LET code == toUpperCase(random) IN
       /\ out' = NoOutput
       /\ IF ReachesStore(uuidDiscordMap, uuid)
          THEN LET n == Len(issues) + 1
                   stored == StoredUuid(uuid, n)
               IN
               /\ n <= MaxIssue
               /\ issues' = Append(issues, [code |-> code, uuid |-> stored, at |-> now])
               /\ verificationCodes' =
                      MapSet(verificationCodes, code, IssueEntry(stored, now, n))
               /\ timers' = timers \cup {IssueTimer(code, now, n)}
          ELSE UNCHANGED <<verificationCodes, timers, issues>>
    /\ UNCHANGED <<uuidChannelMap, uuidDiscordMap, now, redeemed, sessionVars,
                   platformVars, su, link>>

\* a timer callback that only logs
TimerFiresKeeps(t) ==
    /\ ~MicrotaskPending
    /\ t \in timers
    /\ now >= t.fireAt - TimerSkew
    /\ verificationCodes' = verificationCodes
    /\ timers' = timers \ {t}
    /\ out' = NoOutput
    /\ UNCHANGED <<uuidChannelMap, uuidDiscordMap, now, issues, redeemed, sessionVars,
                   platformVars, su, link>>

\* the expiry timer of one issuance fires (part_000:231-234); the callback
\* tests nothing
TimerFires(t) ==
    /\ ~MicrotaskPending
    /\ t \in timers
    /\ now >= t.fireAt - TimerSkew
    /\ verificationCodes' = MapDelete(verificationCodes, t.code)
    /\ timers' = timers \ {t}
    /\ out' = NoOutput
    /\ UNCHANGED <<uuidChannelMap, uuidDiscordMap, now, issues, redeemed, sessionVars,
                   platformVars, su, link>>

----------------------------------------------------------------------------
(* The /linkmc command (part_000:124-171) *)

\* the issuance a successful redemption of code consumes
RedeemedIssuance(codes, code) == codes[code].iss

CountRedeem(counts, codes, code, t) ==
    IF getUuidByCodeResult(codes, code, t) # ""
    THEN [counts EXCEPT ![RedeemedIssuance(codes, code)] = @ + 1]
    ELSE counts

\* lines 129-132: upper-case the option, call getUuidByCode, await its promise
LinkStart(l, presented, user) ==
    /\ ~MicrotaskPending
    /\ clientUser
    /\ LowestFree(link, LinkSlots, l)
    /\ LET code == toUpperCase(presented) IN
       /\ link' = [link EXCEPT ![l] =
              [IdleLink EXCEPT !.pc = "awaitRedeem", !.code = code, !.user = user,
                               !.uuid = getUuidByCodeResult(verificationCodes, code, now)]]
       /\ verificationCodes' = getUuidByCodeStore(verificationCodes, code, now)
       /\ redeemed' = CountRedeem(redeemed, verificationCodes, code, now)
    /\ out' = NoOutput
    /\ UNCHANGED <<uuidChannelMap, uuidDiscordMap, timers, now, issues, sessionVars,
                   platformVars, su>>

\* a link that keeps the user a uuid is already linked to
LinkAccountsKeepFirst(links, uuid, userId) ==
    IF MapHas(links, uuid) THEN links ELSE MapSet(links, uuid, userId)

\* a link that first removes the other uuids the user is linked to
LinkAccountsExclusive(links, uuid, userId) ==
    MapSet([u \in {x \in DOMAIN links : links[x] # userId} |-> links[u]], uuid, userId)

\* line 142: uuidDiscordMap.set(uuid, interaction.user.id)
LinkAccounts(links, uuid, userId) == MapSet(links, uuid, userId)

\* /linkmc without the block of lines 145-156
GrantTargetNone(uuid) == 0

\* lines 146-149: the channel to grant on, 0 when there is none
GrantTarget(uuid) == ResolveChannel(ChannelIdOf(uuid))

\* lines 157-161: the success reply is built from uuid.substring(0, 8), which
\* throws for a uuid that is not a string; the catch of line 163 then sends
\* the error reply
SuccessReply(uuid) == IF typeofString(uuid) THEN "awaitReply" ELSE "awaitReplyError"

\* lines 134-169: the continuation after await getUuidByCode
LinkResume(l) ==
    /\ link[l].pc = "awaitRedeem"
    /\ LET uuid == link[l].uuid IN
       IF uuid = ""
       THEN \* line 135: return interaction.reply(invalid or expired)
            /\ link' = [link EXCEPT ![l] = AwaitReply("awaitReplyInvalid")]
            /\ out' = NoOutput
            /\ UNCHANGED uuidDiscordMap
       ELSE /\ uuidDiscordMap' = LinkAccounts(uuidDiscordMap, uuid, link[l].user)
            /\ IF ToStringThrows(uuid)
               THEN \* the template literal of line 143 throws into the catch
                    /\ link' = [link EXCEPT ![l] = AwaitReply("awaitReplyError")]
                    /\ out' = NoOutput
               ELSE IF ChannelIdOf(uuid) # 0 /\ ~guildCached
               THEN \* interaction.guild is null: the TypeError is caught at line 163
                    /\ link' = [link EXCEPT ![l] = AwaitReply("awaitReplyError")]
                    /\ out' = NoOutput
               ELSE IF GrantTarget(uuid) # 0
               THEN /\ link' = [link EXCEPT ![l].pc = "awaitGrant", ![l].code = << >>,
                                            ![l].channel = GrantTarget(uuid)]
                    /\ out' = NoOutput
               ELSE /\ link' = [link EXCEPT ![l] = AwaitReply(SuccessReply(uuid))]
                    /\ out' = NoOutput
    /\ UNCHANGED <<uuidChannelMap, now, codeVars, sessionVars, platformVars, su>>

\* channel.permissionOverwrites.create resolves (lines 150-159)
GrantReturns(l) ==
    /\ ~MicrotaskPending
    /\ link[l].pc = "awaitGrant"
    /\ link[l].channel \in channels
    /\ chanOverwrites' = MapSet(chanOverwrites, link[l].channel,
                                GrantOverwrite(chanOverwrites[link[l].channel], link[l].user))
    /\ link' = [link EXCEPT ![l] = AwaitReply(SuccessReply(link[l].uuid))]
    /\ out' = NoOutput
    /\ UNCHANGED <<uuidChannelMap, uuidDiscordMap, now, codeVars, sessionVars,
                   channels, created, su>>

\* a catch block that undoes the link of line 142 when the grant rejects
GrantFailsRollback(l) ==
    /\ ~MicrotaskPending
    /\ link[l].pc = "awaitGrant"
    /\ link' = [link EXCEPT ![l] = AwaitReply("awaitReplyError")]
    /\ uuidDiscordMap' = MapDelete(uuidDiscordMap, link[l].uuid)
    /\ out' = NoOutput
    /\ UNCHANGED <<uuidChannelMap, now, codeVars, sessionVars, platformVars, su>>

\* channel.permissionOverwrites.create rejects: caught at line 163
GrantFails(l) ==
    /\ ~MicrotaskPending
    /\ link[l].pc = "awaitGrant"
    /\ link' = [link EXCEPT ![l] = AwaitReply("awaitReplyError")]
    /\ out' = NoOutput
    /\ UNCHANGED <<uuidChannelMap, uuidDiscordMap, now, codeVars, sessionVars,
                   platformVars, su>>

AwaitingReply(l) == link[l].pc \in {"awaitReply", "awaitReplyInvalid", "awaitReplyError"}

\* interaction.reply resolves: the handler returns
ReplyReturns(l) ==
    /\ ~MicrotaskPending
    /\ AwaitingReply(l)
    /\ link' = [link EXCEPT ![l] = IdleLink]
    /\ out' = NoOutput
    /\ UNCHANGED <<uuidChannelMap, uuidDiscordMap, now, codeVars, sessionVars,
                   platformVars, su>>

\* interaction.reply of line 159 rejects: caught at line 163
ReplyFailsCaught(l) ==
    /\ ~MicrotaskPending
    /\ link[l].pc = "awaitReply"
    /\ link' = [link EXCEPT ![l] = AwaitReply("awaitReplyError")]
    /\ out' = NoOutput
    /\ UNCHANGED <<uuidChannelMap, uuidDiscordMap, now, codeVars, sessionVars,
                   platformVars, su>>

\* interaction.reply of line 135 (returned, not awaited) or of line 165 (in
\* the catch block) rejects: the handler's promise rejects and nothing
\* catches it; the process logs it (line 513) and goes on
ReplyFailsUncaught(l) ==
    /\ ~MicrotaskPending
    /\ link[l].pc \in {"awaitReplyInvalid", "awaitReplyError"}
    /\ link' = [link EXCEPT ![l] = IdleLink]
    /\ out' = UnhandledRejection
    /\ UNCHANGED <<uuidChannelMap, uuidDiscordMap, now, codeVars, sessionVars,
                   platformVars, su>>

----------------------------------------------------------------------------
(* POST /send-update (part_000:250-397) *)

\* the validation of line 257 without its test of message
MissingFieldsUuidOnly(uuid, message) == uuid = ""

\* line 257: if (!uuid || !message)
MissingFields(uuid, message) == uuid = "" \/ message = ""

\* a lookup that trusts the registry without resolving the channel (line 285)
LookupChannelStale(uuid) == ChannelIdOf(uuid)

\* /send-update without the lookup of lines 284-285
LookupChannelNone(uuid) == 0

\* lines 284-285: the channel the lookup yields, 0 when none is usable
LookupChannel(uuid) ==
    IF ChannelIdOf(uuid) # 0 THEN ResolveChannel(ChannelIdOf(uuid)) ELSE 0

\* res.status(status).json(...): the handler returns
Respond(s, r, status, error, channelId) ==
    /\ out' = Response(r, status, error, channelId)
    /\ su' = [su EXCEPT ![s] = IdleSend]

\* lines 253-348 (no channel) or 253-363 (channel found): everything the
\* handler does before its first await.  uuid.substring throws for a uuid
\* that is not a string: at line 292, outside the inner try, the outer catch
\* (391-396) answers 500; at line 368, in the try of the send, the catch of
\* lines 384-389 answers 500 and no send is issued.
SendUpdateStart(s, uuid, message) ==
    /\ ~MicrotaskPending
    /\ LowestFree(su, SendSlots, s)
    /\ LET r == [IdleSend EXCEPT !.uuid = uuid, !.message = message] IN
       IF MissingFields(uuid, message)
       THEN Respond(s, r, 400, "missing", 0)
       ELSE IF ToStringThrows(uuid)
       THEN \* the template literal of the log line throws into the outer catch
            Respond(s, r, 500, "internal", 0)
       ELSE IF ~clientUser
       THEN Respond(s, r, 503, "notConnected", 0)
       ELSE IF ~guildCached
       THEN Respond(s, r, 500, "guild", 0)
       ELSE IF LookupChannel(uuid) = 0 /\ ~typeofString(uuid)
       THEN Respond(s, r, 500, "internal", 0)
       ELSE IF ~typeofString(uuid)
       THEN Respond(s, r, 500, "send", 0)
       ELSE IF LookupChannel(uuid) = 0
       THEN LET perms == permissionOverwrites(adminRole, LinkedUserOf(uuid)) IN
            /\ su' = [su EXCEPT ![s] =
                   [r EXCEPT !.pc = "awaitCreate",
                             !.perms = perms,
                             !.nCreate = @ + 1]]
            /\ out' = NoOutput
       ELSE /\ su' = [su EXCEPT ![s] =
                   [r EXCEPT !.pc = "awaitSend",
                             !.channel = LookupChannel(uuid),
                             !.nSend = @ + 1]]
            /\ out' = NoOutput
    /\ UNCHANGED <<uuidChannelMap, uuidDiscordMap, now, codeVars, sessionVars,
                   platformVars, link>>

\* /send-update without the write of line 351
StoreMappingDrop(map, uuid, id) == map

\* a write of line 351 that keeps an id already recorded
StoreMappingKeepFirst(map, uuid, id) ==
    IF MapHas(map, uuid) THEN map ELSE MapSet(map, uuid, id)

\* line 351: uuidChannelMap.set(uuid, channel.id)
\* a write that records the new channel for every uuid the registry has
StoreMappingAll(map, uuid, id) == [x \in (DOMAIN map) \cup {uuid} |-> id]

StoreMapping(map, uuid, id) == MapSet(map, uuid, id)

\* a handler that sends to the new channel before it has recorded it
CreateReturnsSendFirst(s) ==
    /\ ~MicrotaskPending
    /\ su[s].pc = "awaitCreate"
    /\ Len(created) < MaxChannels
    /\ LET id == Len(created) + 1 IN
       /\ created' = Append(created, su[s].uuid)
       /\ channels' = channels \cup {id}
       /\ chanOverwrites' = MapSet(chanOverwrites, id, su[s].perms)
       /\ uuidChannelMap' = uuidChannelMap
       /\ su' = [su EXCEPT ![s].pc = "awaitSend", ![s].channel = id,
                           ![s].perms = << >>,
                           ![s].nSend = @ + 1]
       /\ out' = NoOutput
    /\ UNCHANGED <<uuidDiscordMap, now, codeVars, sessionVars, link>>

\* guild.channels.create resolves with a channel of a fresh id; lines 350-363
CreateReturns(s) ==
    /\ ~MicrotaskPending
    /\ su[s].pc = "awaitCreate"
    /\ Len(created) < MaxChannels
    /\ LET id == Len(created) + 1 IN
       /\ created' = Append(created, su[s].uuid)
       /\ channels' = channels \cup {id}
       /\ chanOverwrites' = MapSet(chanOverwrites, id, su[s].perms)
       /\ uuidChannelMap' = StoreMapping(uuidChannelMap, su[s].uuid, id)
       /\ su' = [su EXCEPT ![s].pc = "awaitSend", ![s].channel = id,
                           ![s].perms = << >>,
                           ![s].nWrite = @ + 1, ![s].nSend = @ + 1]
       /\ out' = NoOutput
    /\ UNCHANGED <<uuidDiscordMap, now, codeVars, sessionVars, link>>

\* a catch block that forgets the uuid's registry entry when the create rejects
CreateFailsForgets(s) ==
    /\ ~MicrotaskPending
    /\ su[s].pc = "awaitCreate"
    /\ Respond(s, su[s], 500, "create", 0)
    /\ uuidChannelMap' = MapDelete(uuidChannelMap, su[s].uuid)
    /\ UNCHANGED <<uuidDiscordMap, now, codeVars, sessionVars, platformVars, link>>

\* guild.channels.create rejects; lines 353-358
CreateFails(s) ==
    /\ ~MicrotaskPending
    /\ su[s].pc = "awaitCreate"
    /\ Respond(s, su[s], 500, "create", 0)
    /\ UNCHANGED <<uuidChannelMap, uuidDiscordMap, now, codeVars, sessionVars,
                   platformVars, link>>

\* channel.send resolves; lines 378-383
SendReturns(s) ==
    /\ ~MicrotaskPending
    /\ su[s].pc = "awaitSend"
    /\ su[s].channel \in channels
    /\ Respond(s, su[s], 200, "", su[s].channel)
    /\ UNCHANGED <<uuidChannelMap, uuidDiscordMap, now, codeVars, sessionVars,
                   platformVars, link>>

\* a catch block that forgets the uuid's registry entry when the send rejects
SendFailsForgets(s) ==
    /\ ~MicrotaskPending
    /\ su[s].pc = "awaitSend"
    /\ Respond(s, su[s], 500, "send", 0)
    /\ uuidChannelMap' = MapDelete(uuidChannelMap, su[s].uuid)
    /\ UNCHANGED <<uuidDiscordMap, now, codeVars, sessionVars, platformVars, link>>

\* a handler that calls channel.send again when it rejects
SendFailsRetries(s) ==
    /\ ~MicrotaskPending
    /\ su[s].pc = "awaitSend"
    /\ su' = [su EXCEPT ![s].nSend = @ + 1]
    /\ out' = NoOutput
    /\ UNCHANGED <<uuidChannelMap, uuidDiscordMap, now, codeVars, sessionVars,
                   platformVars, link>>

\* channel.send rejects; lines 384-389
SendFails(s) ==
    /\ ~MicrotaskPending
    /\ su[s].pc = "awaitSend"
    /\ Respond(s, su[s], 500, "send", 0)
    /\ UNCHANGED <<uuidChannelMap, uuidDiscordMap, now, codeVars, sessionVars,
                   platformVars, link>>

----------------------------------------------------------------------------
(* Specifications.  Spec is the whole program.  The others keep the part   *)
(* of it that a group of properties is about, so that it can be explored   *)
(* in full: the actions left out of each write none of the variables the   *)
(* actions kept in read.                                                    *)

Next ==
    \/ ClientReady
    \/ GuildAvailable
    \/ GuildUnavailable
    \/ Tick
    \/ \E c \in ChannelIds : ChannelDeleted(c)
    \/ \E u \in BodyUuids, r \in RandomStrings : GenerateCode(u, r)
    \/ \E t \in timers : TimerFires(t)
    \/ \E l \in LinkSlots, p \in PresentedCodes, usr \in Users : LinkStart(l, p, usr)
    \/ \E l \in LinkSlots : LinkResume(l)
    \/ \E l \in LinkSlots : GrantReturns(l)
    \/ \E l \in LinkSlots : GrantFails(l)
    \/ \E l \in LinkSlots : ReplyReturns(l)
    \/ \E l \in LinkSlots : ReplyFailsCaught(l)
    \/ \E l \in LinkSlots : ReplyFailsUncaught(l)
    \/ \E s \in SendSlots, u \in BodyUuids, m \in MessageInputs : SendUpdateStart(s, u, m)
    \/ \E s \in SendSlots : CreateReturns(s)
    \/ \E s \in SendSlots : CreateFails(s)
    \/ \E s \in SendSlots : SendReturns(s)
    \/ \E s \in SendSlots : SendFails(s)

Spec == Init /\ [][Next]_vars

\* /send-update and the platform: no code is issued, so no account is linked
NextSend ==
    \/ ClientReady
    \/ GuildAvailable
    \/ GuildUnavailable
    \/ \E c \in ChannelIds : ChannelDeleted(c)
    \/ \E s \in SendSlots, u \in BodyUuids, m \in MessageInputs : SendUpdateStart(s, u, m)
    \/ \E s \in SendSlots : CreateReturns(s)
    \/ \E s \in SendSlots : CreateFails(s)
    \/ \E s \in SendSlots : SendReturns(s)
    \/ \E s \in SendSlots : SendFails(s)

SpecSend == Init /\ [][NextSend]_vars

\* the process started without ADMIN_ROLE_ID in its environment
InitNoAdminRole == Init /\ adminRole = ""

\* /generate-code, the expiry timers and /linkmc invoked by one user whose
\* replies are delivered: no channel is created
NextCodes ==
    \/ ClientReady
    \/ Tick
    \/ \E u \in UuidInputs, r \in RandomStrings : GenerateCode(u, r)
    \/ \E t \in timers : TimerFires(t)
    \/ \E l \in LinkSlots, p \in PresentedCodes : LinkStart(l, p, "U1")
    \/ \E l \in LinkSlots : LinkResume(l)
    \/ \E l \in LinkSlots : ReplyReturns(l)

SpecCodes == InitNoAdminRole /\ [][NextCodes]_vars

\* /generate-code, /linkmc and /send-update with well-formed requests, one of
\* each kind in flight at a time, over a run shorter than the life of a code
NextLink ==
    \/ ClientReady
    \/ GuildAvailable
    \/ GuildUnavailable
    \/ \E c \in ChannelIds : ChannelDeleted(c)
    \/ \E u \in Uuids : GenerateCode(u, <<"x","7","k","2","p","q">>)
    \/ \E p \in PresentedCodes, usr \in Users : LinkStart("l1", p, usr)
    \/ \E l \in LinkSlots : LinkResume(l)
    \/ \E l \in LinkSlots : GrantReturns(l)
    \/ \E l \in LinkSlots : GrantFails(l)
    \/ \E l \in LinkSlots : ReplyReturns(l)
    \/ \E l \in LinkSlots : ReplyFailsCaught(l)
    \/ \E l \in LinkSlots : ReplyFailsUncaught(l)
    \/ \E u \in Uuids : SendUpdateStart("s1", u, "hello")
    \/ \E s \in SendSlots : CreateReturns(s)
    \/ \E s \in SendSlots : CreateFails(s)
    \/ \E s \in SendSlots : SendReturns(s)
    \/ \E s \in SendSlots : SendFails(s)

SpecLink == InitNoAdminRole /\ [][NextLink]_vars

\* src/server.js, lines 1-205: the iteration of the server that has no account
\* linking and runs a periodic cleanup.  Its /send-update handler (lines
\* 50-150) makes the same checks and the same registry read and write as the
\* handler above.

\* cleanupDeletedChannels (server.js:168-178), run by setInterval (line 197):
\* no await in its body, so the sweep is one step
cleanupDeletedChannels ==
    /\ ~MicrotaskPending
    /\ uuidChannelMap' =
           IF ~guildCached THEN uuidChannelMap
           ELSE [u \in {x \in DOMAIN uuidChannelMap : uuidChannelMap[x] \in channels}
                    |-> uuidChannelMap[u]]
    /\ out' = NoOutput
    /\ UNCHANGED <<uuidDiscordMap, now, codeVars, sessionVars, platformVars, su, link>>

\* server.js:95-101: the one overwrite of a new channel, for the guild id
permissionOverwritesServer ==
    << Overwrite(GUILD_ID, {"ViewChannel", "ReadMessageHistory"}, {"SendMessages"}) >>

\* server.js:52-102 (no channel) or 52-117 (channel found): everything the
\* handler does before its first await.  uuid.substring throws for a uuid
\* that is not a string: at line 87, outside the inner try, the outer catch
\* (145-150) answers 500; at line 122, in the try of the send, the catch of
\* lines 138-143 answers 500 and no send is issued.
SendUpdateStartServer(s, uuid, message) ==
    /\ ~MicrotaskPending
    /\ LowestFree(su, SendSlots, s)
    /\ LET r == [IdleSend EXCEPT !.uuid = uuid, !.message = message] IN
       IF MissingFields(uuid, message)
       THEN Respond(s, r, 400, "missing", 0)
       ELSE IF ToStringThrows(uuid)
       THEN \* the template literal of the log line throws into the outer catch
            Respond(s, r, 500, "internal", 0)
       ELSE IF ~clientUser
       THEN Respond(s, r, 503, "notConnected", 0)
       ELSE IF ~guildCached
       THEN Respond(s, r, 500, "guild", 0)
       ELSE IF LookupChannel(uuid) = 0 /\ ~typeofString(uuid)
       THEN Respond(s, r, 500, "internal", 0)
       ELSE IF ~typeofString(uuid)
       THEN Respond(s, r, 500, "send", 0)
       ELSE IF LookupChannel(uuid) = 0
       THEN /\ su' = [su EXCEPT ![s] =
                   [r EXCEPT !.pc = "awaitCreate",
                             !.perms = permissionOverwritesServer,
                             !.nCreate = @ + 1]]
            /\ out' = NoOutput
       ELSE /\ su' = [su EXCEPT ![s] =
                   [r EXCEPT !.pc = "awaitSend",
                             !.channel = LookupChannel(uuid),
                             !.nSend = @ + 1]]
            /\ out' = NoOutput
    /\ UNCHANGED <<uuidChannelMap, uuidDiscordMap, now, codeVars, sessionVars,
                   platformVars, link>>

NextServer ==
    \/ ClientReady
    \/ GuildAvailable
    \/ GuildUnavailable
    \/ \E c \in ChannelIds : ChannelDeleted(c)
    \/ \E s \in SendSlots, u \in BodyUuids, m \in MessageInputs :
           SendUpdateStartServer(s, u, m)
    \/ \E s \in SendSlots : CreateReturns(s)
    \/ \E s \in SendSlots : CreateFails(s)
    \/ \E s \in SendSlots : SendReturns(s)
    \/ \E s \in SendSlots : SendFails(s)
    \/ cleanupDeletedChannels

SpecServer == InitNoAdminRole /\ [][NextServer]_vars

\* one uuid over the whole life of its codes, with the platform calls of
\* /linkmc and /send-update but no outage and no failed reply
NextExpiry ==
    \/ ClientReady
    \/ GuildAvailable
    \/ Tick
    \/ \E r \in RandomStrings : GenerateCode("u1", r)
    \/ \E t \in timers : TimerFires(t)
    \/ \E p \in PresentedCodes, usr \in Users : LinkStart("l1", p, usr)
    \/ \E l \in LinkSlots : LinkResume(l)
    \/ \E l \in LinkSlots : GrantReturns(l)
    \/ \E l \in LinkSlots : GrantFails(l)
    \/ \E l \in LinkSlots : ReplyReturns(l)
    \/ SendUpdateStart("s1", "u1", "hello")
    \/ \E s \in SendSlots : CreateReturns(s)
    \/ \E s \in SendSlots : SendReturns(s)

SpecExpiry == InitNoAdminRole /\ [][NextExpiry]_vars

\* the three endpoints served with every kind of uuid a JSON body can carry:
\* a string, nothing, a number, an array, an object with no string form
NextBodies ==
    \/ ClientReady
    \/ GuildAvailable
    \/ \E u \in BodyUuids : GenerateCode(u, <<"x","7","k","2","p","q">>)
    \/ LinkStart("l1", <<"x","7","k","2","p","q">>, "U1")
    \/ LinkResume("l1")
    \/ GrantReturns("l1")
    \/ ReplyReturns("l1")
    \/ ReplyFailsCaught("l1")
    \/ \E u \in BodyUuids : SendUpdateStart("s1", u, "hello")
    \/ CreateReturns("s1")
    \/ SendReturns("s1")

SpecBodies == InitNoAdminRole /\ [][NextBodies]_vars

----------------------------------------------------------------------------
(* Properties of /send-update, checked under SpecSend *)

\* C1: a well-formed /send-update request that finds the session ready and
\* the guild cached, and no resolvable channel recorded for its uuid, issues
\* one create-channel call; when that call returns, the id of the new channel
\* is recorded for the uuid, and the request never issues a second one.  A
\* request that finds a resolvable channel recorded for its uuid issues no
\* create-channel call and sends to the recorded channel; the id in a 200
\* response is the id of the channel sent to.
C1_FirstCreatesSecondReuses ==
    /\ [][ \A s \in SendSlots, u \in Uuids, m \in MessageInputs :
             (SendUpdateStart(s, u, m) /\ m # "" /\ clientUser /\ guildCached) =>
                 IF ChannelIdOf(u) \in channels
                 THEN /\ su'[s].nCreate = 0
                      /\ su'[s].pc = "awaitSend"
                      /\ su'[s].channel = ChannelIdOf(u)
                 ELSE /\ su'[s].nCreate = 1
                      /\ su'[s].pc = "awaitCreate" ]_vars
    /\ [][ \A s \in SendSlots :
             CreateReturns(s) =>
                 /\ su'[s].channel \notin 1..Len(created)
                 /\ MapHas(uuidChannelMap', su[s].uuid)
                 /\ uuidChannelMap'[su[s].uuid] = su'[s].channel
                 /\ su'[s].nCreate = 1 ]_vars
    /\ [][ \A s \in SendSlots :
             SendReturns(s) =>
                 /\ out'.status = 200
                 /\ out'.channelId = su[s].channel
                 /\ out'.nCreate = su[s].nCreate ]_vars
    /\ [](\A s \in SendSlots : su[s].nCreate <= 1)

\* C1 witness: a request is answered 200 without having created a channel, on
\* the channel recorded for its uuid, the only channel ever created
C1_Witness ==
    /\ out.kind = "response"
    /\ out.status = 200
    /\ out.nCreate = 0
    /\ out.channelId = ChannelIdOf(out.uuid)
    /\ created = << out.uuid >>

\* C7: a /send-update request without a uuid or without a message is answered
\* 400 in every session state, with no create-channel call, no registry
\* write and no send; the step changes neither the registry, nor the
\* platform, nor any request in flight.
C7_MissingFieldsRejected ==
    /\ [](out.kind = "response" /\ (out.uuid = "" \/ out.message = "") =>
             /\ out.status = 400
             /\ out.nCreate = 0
             /\ out.nWrite = 0
             /\ out.nSend = 0)
    /\ [][ \A s \in SendSlots, u \in UuidInputs, m \in MessageInputs :
             (SendUpdateStart(s, u, m) /\ (u = "" \/ m = "")) =>
                 /\ out'.status = 400
                 /\ UNCHANGED <<uuidChannelMap, channels, created, chanOverwrites, su>> ]_vars

\* C7 witness: a request naming a uuid, but no message, is answered 400 while
\* the session is ready and a resolvable channel is recorded for the uuid
C7_Witness ==
    /\ out.kind = "response"
    /\ out.status = 400
    /\ out.uuid # ""
    /\ out.message = ""
    /\ clientUser
    /\ guildCached
    /\ ChannelIdOf(out.uuid) \in channels

\* the channels created for uuid u so far
CreatedFor(u) == { c \in 1..Len(created) : created[c] = u }

\* C8 as stated: for every uuid, at most one channel is created and recorded
\* over the life of the process.
C8_AtMostOncePerUuid ==
    \A u \in Uuids : Cardinality(CreatedFor(u)) <= 1

\* C8 amended: a create-channel call for a uuid is issued only by a request
\* that finds no resolvable channel recorded for that uuid; a request issues
\* at most one such call and writes the registry only after it; every
\* channel created is created by such a request, for its uuid.
C8_CreatedOnlyWhenNoneResolvable ==
    /\ [][ \A s \in SendSlots :
             (su[s].pc = "idle" /\ su'[s].pc = "awaitCreate") =>
                 ChannelIdOf(su'[s].uuid) \notin channels ]_vars
    /\ [][ created' # created =>
             \E s \in SendSlots :
                 /\ su[s].pc = "awaitCreate"
                 /\ su[s].nWrite = 0
                 /\ created' = Append(created, su[s].uuid)
                 /\ su'[s].nWrite = 1 ]_vars
    /\ [](\A s \in SendSlots : su[s].nWrite <= su[s].nCreate /\ su[s].nCreate <= 1)

\* C8 witness: a second channel has been created for a uuid whose first
\* channel was deleted
C8_Witness ==
    \E u \in Uuids :
        /\ created = << u, u >>
        /\ channels = {2}
        /\ ChannelIdOf(u) = 2

\* C9: channel ids are handed out in the order the creations complete.  When
\* two requests in flight for one uuid have each created a channel, the two
\* channels differ, the registry holds for the uuid the id of the creation
\* that completed later, and no registry entry holds the other id.
C9_LaterCreationWins ==
    \A s1, s2 \in SendSlots :
        ( /\ su[s1].nWrite = 1
          /\ su[s2].nWrite = 1
          /\ s1 # s2
          /\ su[s1].uuid = su[s2].uuid
          /\ su[s1].channel <= su[s2].channel ) =>
            /\ su[s1].channel < su[s2].channel
            /\ ChannelIdOf(su[s1].uuid) = su[s2].channel
            /\ \A u \in DOMAIN uuidChannelMap : uuidChannelMap[u] # su[s1].channel

\* C9 witness: both requests have created a channel for the same uuid and
\* neither channel has been deleted, so each passed the lookup before the
\* other's creation completed
C9_Witness ==
    /\ su["s1"].nWrite = 1
    /\ su["s2"].nWrite = 1
    /\ su["s1"].uuid = su["s2"].uuid
    /\ created = << su["s1"].uuid, su["s1"].uuid >>
    /\ channels = {1, 2}

----------------------------------------------------------------------------
(* Properties of the verification codes, checked under SpecCodes *)

\* the n-th issuance has been redeemed, or its TTL has elapsed
Spent(n) == redeemed[n] >= 1 \/ now > issues[n].at + TTL

\* C2: a redemption made while the store holds an entry for the code and
\* now <= expires returns the uuid that entry was issued for, removes the
\* entry, is the first redemption of that issuance to obtain the uuid and
\* falls within TTL of the issuance; every other redemption (no entry, or
\* now > expires) returns absent.
C2_RedeemOnceWithinTtl ==
    [][ \A l \in LinkSlots :
          (link[l].pc = "idle" /\ link'[l].pc = "awaitRedeem") =>
              LET code == link'[l].code IN
              IF MapHas(verificationCodes, code) /\ now <= verificationCodes[code].expires
              THEN LET n == verificationCodes[code].iss IN
                   /\ link'[l].uuid = issues[n].uuid
                   /\ issues[n].code = code
                   /\ ~MapHas(verificationCodes', code)
                   /\ redeemed[n] = 0
                   /\ now <= issues[n].at + TTL
              ELSE link'[l].uuid = "" ]_vars

\* C2 witness: the one code issued was redeemed for its uuid at the last
\* instant of its life, and is now presented again and found absent
C2_Witness ==
    /\ Len(issues) = 1
    /\ redeemed[1] = 1
    /\ now = issues[1].at + TTL
    /\ uuidDiscordMap = (issues[1].uuid :> "U1")
    /\ \E l \in LinkSlots :
           /\ link[l].pc = "awaitRedeem"
           /\ link[l].code = issues[1].code
           /\ link[l].uuid = ""

\* C3 as stated: a redemption presenting a code string of which some
\* issuance has been redeemed or has passed its expiry returns absent.
C3_SpentStringNeverResolves ==
    [][ \A l \in LinkSlots, p \in PresentedCodes, usr \in Users :
          ( /\ LinkStart(l, p, usr)
            /\ \E n \in 1..Len(issues) : issues[n].code = toUpperCase(p) /\ Spent(n) ) =>
              link'[l].uuid = "" ]_vars

\* C3 amended: an issuance that has been redeemed or has passed its expiry
\* stays so and is never redeemed (again): no step obtains a uuid from it.
C3_SpentIssuanceNeverResolves ==
    [][ \A n \in 1..Len(issues) :
          Spent(n) => /\ redeemed'[n] = redeemed[n]
                      /\ (redeemed'[n] >= 1 \/ now' > issues'[n].at + TTL) ]_vars

\* C3 witness: the one code issued is presented after its expiry, while its
\* entry is still in the store (the timer has not fired), and found absent
C3_Witness ==
    /\ Len(issues) = 1
    /\ redeemed[1] = 0
    /\ now > issues[1].at + TTL
    /\ timers # {}
    /\ \E l \in LinkSlots :
           /\ link[l].pc = "awaitRedeem"
           /\ link[l].code = issues[1].code
           /\ link[l].uuid = ""

\* C6: /generate-code for a uuid that is linked answers success false and
\* alreadyLinked true, with no code; no step adds a store entry or schedules
\* a timer for a uuid that is linked.
C6_LinkedUuidGetsNoCode ==
    /\ [](\A u \in DOMAIN uuidDiscordMap, r \in RandomStrings :
             LET resp == GenerateCodeResponse(uuidDiscordMap, u, r) IN
             /\ resp.success = FALSE
             /\ resp.alreadyLinked = TRUE
             /\ resp.code = << >>)
    /\ [][ \A c \in DOMAIN verificationCodes' :
             (~MapHas(verificationCodes, c) \/ verificationCodes'[c] # verificationCodes[c]) =>
                 ~MapHas(uuidDiscordMap, verificationCodes'[c].uuid) ]_vars
    /\ [][ \A t \in timers' \ timers :
             /\ MapHas(verificationCodes', t.code)
             /\ verificationCodes'[t.code].iss = t.iss
             /\ ~MapHas(uuidDiscordMap, verificationCodes'[t.code].uuid) ]_vars

\* C6 witness: a uuid is linked, no /linkmc is in flight and a code could
\* still be issued: /generate-code for that uuid is served in this state
C6_Witness ==
    /\ \E u \in Uuids : MapHas(uuidDiscordMap, u)
    /\ Len(issues) < MaxIssue
    /\ \A l \in LinkSlots : link[l].pc = "idle"

\* C10: however /linkmc invocations interleave, at most one redemption
\* obtains the uuid of an issuance; an invocation that obtained a uuid has
\* removed the entry before it first suspends.
C10_AtMostOneObtainsUuid ==
    /\ \A n \in 1..MaxIssue : redeemed[n] <= 1
    /\ \A l \in LinkSlots :
           (link[l].pc = "awaitRedeem" /\ link[l].uuid # "") =>
               ~MapHas(verificationCodes, link[l].code)

\* C10 witness: while the invocation that redeemed the one code issued still
\* waits for its reply, a second invocation has presented the same code,
\* within its TTL and before its timer fired, and found it absent
C10_Witness ==
    /\ Len(issues) = 1
    /\ redeemed[1] = 1
    /\ now <= issues[1].at + TTL
    /\ timers # {}
    /\ link["l1"].pc = "awaitReply"
    /\ link["l2"].pc = "awaitRedeem"
    /\ link["l2"].code = issues[1].code
    /\ link["l2"].uuid = ""

----------------------------------------------------------------------------
(* Properties of linking and channel access, checked under SpecLink *)

\* C4: when /linkmc has obtained a uuid and a channel recorded for that uuid
\* resolves, the handler links the accounts and calls the permission grant
\* on exactly that channel for the invoking user; when the grant returns,
\* the channel allows that user to view it, read its history and send.
C4_GrantOnRecordedChannel ==
    /\ [][ \A l \in LinkSlots :
             ( /\ LinkResume(l)
               /\ link[l].uuid # ""
               /\ guildCached
               /\ ChannelIdOf(link[l].uuid) \in channels ) =>
                 /\ link'[l].pc = "awaitGrant"
                 /\ link'[l].channel = ChannelIdOf(link[l].uuid)
                 /\ link'[l].user = link[l].user
                 /\ MapHas(uuidDiscordMap', link[l].uuid)
                 /\ uuidDiscordMap'[link[l].uuid] = link[l].user ]_vars
    /\ [][ \A l \in LinkSlots :
             GrantReturns(l) =>
                 LET ows == chanOverwrites'[link[l].channel] IN
                 \E i \in 1..Len(ows) :
                     /\ ows[i].id = link[l].user
                     /\ ows[i].allow = {"ViewChannel", "ReadMessageHistory", "SendMessages"}
                     /\ ows[i].deny = {} ]_vars

\* C4 witness: an invocation waits for the grant it called on the live
\* channel recorded for the uuid it has just linked to its user
C4_Witness ==
    /\ link["l1"].pc = "awaitGrant"
    /\ link["l1"].channel \in channels
    /\ link["l1"].channel = ChannelIdOf(link["l1"].uuid)
    /\ LinkedUserOf(link["l1"].uuid) = link["l1"].user

\* C5: when /send-update issues a create-channel call for a uuid linked to
\* user U, the overwrites passed to the call hold an entry that allows U to
\* view, read history and send; the channel is created with those overwrites.
C5_LinkedUserInCreateOverwrites ==
    /\ [][ \A s \in SendSlots, usr \in Users :
             ( /\ su[s].pc = "idle"
               /\ su'[s].pc = "awaitCreate"
               /\ LinkedUserOf(su'[s].uuid) = usr ) =>
                 \E i \in 1..Len(su'[s].perms) :
                     /\ su'[s].perms[i].id = usr
                     /\ su'[s].perms[i].allow =
                            {"ViewChannel", "ReadMessageHistory", "SendMessages"} ]_vars
    /\ [][ \A s \in SendSlots :
             CreateReturns(s) => chanOverwrites'[su'[s].channel] = su[s].perms ]_vars

\* C5 witness: a channel has been created for a linked uuid with an allow
\* entry for the linked user, and nobody was granted access afterwards
C5_Witness ==
    \E u \in Uuids :
        /\ created = << u >>
        /\ channels = {1}
        /\ LinkedUserOf(u) \in Users
        /\ Len(chanOverwrites[1]) = 3
        /\ chanOverwrites[1][3].id = LinkedUserOf(u)
        /\ \A l \in LinkSlots : link[l].pc = "idle"

\* C11: when the permission grant of a successful redemption fails, the
\* handler goes on to send the error reply to the invoking user; the step
\* leaves the link registry and the code store as they are, so the uuid stays
\* linked to that user and the consumed code stays removed.
C11_GrantFailureKeepsLink ==
    /\ [][ \A l \in LinkSlots :
             GrantFails(l) =>
                 /\ link'[l].pc = "awaitReplyError"
                 /\ uuidDiscordMap' = uuidDiscordMap
                 /\ verificationCodes' = verificationCodes
                 /\ MapHas(uuidDiscordMap', link[l].uuid)
                 /\ uuidDiscordMap'[link[l].uuid] = link[l].user ]_vars
    /\ [](\A l \in LinkSlots :
             link[l].pc = "awaitGrant" =>
                 /\ LinkedUserOf(link[l].uuid) = link[l].user
                 /\ \A c \in DOMAIN verificationCodes :
                        verificationCodes[c].iss \notin
                            { n \in 1..Len(issues) : redeemed[n] >= 1 })

\* C11 witness: the error reply is pending for the one redemption made, whose
\* uuid is linked and has a live recorded channel without an entry for the
\* linked user: the grant was called and did not take effect
C11_Witness ==
    /\ link["l1"].pc = "awaitReplyError"
    /\ Len(issues) = 1
    /\ redeemed[1] = 1
    /\ verificationCodes = EmptyMap
    /\ guildCached
    /\ LET u == issues[1].uuid IN
       /\ LinkedUserOf(u) \in Users
       /\ ChannelIdOf(u) \in channels
       /\ \A i \in 1..Len(chanOverwrites[ChannelIdOf(u)]) :
              chanOverwrites[ChannelIdOf(u)][i].id # LinkedUserOf(u)

\* C12 as stated: a failed create-channel or send-message call ends its
\* /send-update request with a 500 response, and no rejection of a platform
\* call (create, send, grant, reply) leaves its handler uncaught.
C12_NoFailureEscapes ==
    /\ (out.kind = "response" /\ out.error \in {"create", "send"}) => out.status = 500
    /\ out.kind # "unhandledRejection"

\* C13: a response sent before any platform call is decided in the order
\* fields (400), session (503), guild (500); a request that passes the three
\* goes on to the lookup, after which only a request whose uuid is not a
\* string is answered (500) without a platform call.  A uuid that has no
\* string form is outside the requests the claim calls valid: it is answered
\* 500 right after the test of the fields.  A request answered
\* 503, 500 for the guild or 500 for a failed create has written no registry
\* entry and sent no message, and the step that answers leaves the registry
\* as it is.
C13_EarlyFailuresChangeNothing ==
    /\ [][ (out'.kind = "response" /\ out'.nCreate = 0 /\ out'.nSend = 0) =>
             IF out'.uuid = "" \/ out'.message = ""
             THEN out'.status = 400 /\ out'.error = "missing"
             ELSE IF ToStringThrows(out'.uuid)
             THEN out'.status = 500 /\ out'.error = "internal"
             ELSE IF ~clientUser
             THEN out'.status = 503 /\ out'.error = "notConnected"
             ELSE IF ~guildCached
             THEN out'.status = 500 /\ out'.error = "guild"
             ELSE /\ ~typeofString(out'.uuid)
                  /\ out'.status = 500
                  /\ out'.error \in {"internal", "send"} ]_vars
    /\ [][ (out'.kind = "response"
               /\ out'.error \in {"notConnected", "guild", "create", "internal"}) =>
             uuidChannelMap' = uuidChannelMap ]_vars
    /\ [](out.kind = "response" /\ out.error \in {"notConnected", "guild", "create"} =>
             /\ out.nWrite = 0
             /\ out.nSend = 0
             /\ out.status = IF out.error = "notConnected" THEN 503 ELSE 500
             /\ out.nCreate = IF out.error = "create" THEN 1 ELSE 0)

\* C13 witness: a request for a uuid with a recorded channel that was deleted
\* is answered 500 after its create-channel call failed; the registry still
\* holds the old entry
C13_Witness ==
    /\ out.kind = "response"
    /\ out.error = "create"
    /\ out.status = 500
    /\ created = << out.uuid >>
    /\ channels = {}
    /\ ChannelIdOf(out.uuid) = 1

\* C14: a /send-update request, in flight or answered, has issued at most one
\* create-channel call, one registry write and one send-message call; the
\* step in which its create or its send fails answers 500 and ends the
\* request.
C14_AtMostOneOfEach ==
    /\ [](\A s \in SendSlots :
             su[s].nCreate <= 1 /\ su[s].nWrite <= 1 /\ su[s].nSend <= 1)
    /\ [](out.kind = "response" =>
             out.nCreate <= 1 /\ out.nWrite <= 1 /\ out.nSend <= 1)
    /\ [][ \A s \in SendSlots :
             (CreateFails(s) \/ SendFails(s)) =>
                 /\ su'[s] = IdleSend
                 /\ out'.status = 500
                 /\ out'.nCreate = su[s].nCreate
                 /\ out'.nSend = su[s].nSend ]_vars

\* C14 witness: a request that created a channel and recorded it is answered
\* 500 after its one send failed
C14_Witness ==
    /\ out.kind = "response"
    /\ out.error = "send"
    /\ out.nCreate = 1
    /\ out.nWrite = 1
    /\ out.nSend = 1

\* C15: a /send-update request that passes the checks and finds for its uuid
\* a registry entry whose channel does not resolve issues a create-channel
\* call; when the call returns, the registry entry of the uuid is
\* overwritten with the id of the new, live channel, which differs from the
\* old one, and the message is sent to the new channel.
C15_RecreateAfterDeletion ==
    /\ [][ \A s \in SendSlots :
             ( /\ su[s].pc = "idle"
               /\ su'[s].pc # "idle"
               /\ ChannelIdOf(su'[s].uuid) # 0
               /\ ChannelIdOf(su'[s].uuid) \notin channels ) =>
                 /\ su'[s].pc = "awaitCreate"
                 /\ su'[s].nCreate = 1
                 /\ su'[s].nSend = 0 ]_vars
    /\ [][ \A s \in SendSlots :
             (CreateReturns(s) /\ ChannelIdOf(su[s].uuid) # 0) =>
                 /\ uuidChannelMap'[su[s].uuid] # uuidChannelMap[su[s].uuid]
                 /\ uuidChannelMap'[su[s].uuid] \in channels'
                 /\ su'[s].pc = "awaitSend"
                 /\ su'[s].channel = uuidChannelMap'[su[s].uuid]
                 /\ su'[s].nSend = 1 ]_vars

\* C15 witness: the uuid's first channel was deleted; a later request
\* created the second, recorded it and is answered 200 on it
C15_Witness ==
    /\ out.kind = "response"
    /\ out.status = 200
    /\ out.nCreate = 1
    /\ out.nWrite = 1
    /\ out.channelId = 2
    /\ created = << out.uuid, out.uuid >>
    /\ channels = {2}
    /\ ChannelIdOf(out.uuid) = 2
    /\ \A s \in SendSlots : su[s].pc = "idle"

----------------------------------------------------------------------------
(* Properties checked under SpecExpiry *)

\* C16: a /linkmc invocation whose code has no entry, or has an entry with
\* now > expires, obtains no uuid; the entry, if there was one, is removed and
\* no other entry changes; the handler goes to the invalid-or-expired reply
\* and from there only returns: it changes neither the link registry, nor the
\* channel registry, nor any channel's overwrites, and calls no grant.
C16_InvalidCodeChangesNothing ==
    /\ [][ \A l \in LinkSlots :
             ( /\ link[l].pc = "idle"
               /\ link'[l].pc = "awaitRedeem"
               /\ \/ ~MapHas(verificationCodes, link'[l].code)
                  \/ now > verificationCodes[link'[l].code].expires ) =>
                 /\ link'[l].uuid = ""
                 /\ verificationCodes' = MapDelete(verificationCodes, link'[l].code)
                 /\ redeemed' = redeemed ]_vars
    /\ [][ \A l \in LinkSlots :
             (link[l].pc = "awaitRedeem" /\ link[l].uuid = "" /\ link'[l] # link[l]) =>
                 /\ link'[l].pc = "awaitReplyInvalid"
                 /\ UNCHANGED <<uuidDiscordMap, uuidChannelMap, chanOverwrites>> ]_vars
    /\ [][ \A l \in LinkSlots :
             (link[l].pc = "awaitReplyInvalid" /\ link'[l] # link[l]) =>
                 /\ link'[l].pc = "idle"
                 /\ UNCHANGED <<uuidDiscordMap, uuidChannelMap, chanOverwrites>> ]_vars

\* C16 witness: the invalid-or-expired reply is pending for the one code
\* issued, presented after its expiry and before its timer fired: its entry is
\* gone, its uuid has a live channel and is not linked
C16_Witness ==
    /\ link["l1"].pc = "awaitReplyInvalid"
    /\ Len(issues) = 1
    /\ redeemed[1] = 0
    /\ now > issues[1].at + TTL
    /\ timers # {}
    /\ verificationCodes = EmptyMap
    /\ ChannelIdOf(issues[1].uuid) \in channels
    /\ ~MapHas(uuidDiscordMap, issues[1].uuid)

\* C17: each registry holds one value per uuid: a user for a linked uuid, the
\* id of a channel created for that uuid for a recorded one.  A redemption
\* whose entry is live obtains the uuid also when the uuid is already linked,
\* and the handler then maps the uuid to the invoking user, whoever it was
\* linked to before, leaving the other uuids' links as they are.
C17_OneLinkLastRedeemerWins ==
    /\ [](\A u \in DOMAIN uuidDiscordMap : uuidDiscordMap[u] \in Users)
    /\ [](\A u \in DOMAIN uuidChannelMap :
             /\ uuidChannelMap[u] \in 1..Len(created)
             /\ created[uuidChannelMap[u]] = u)
    /\ [][ \A l \in LinkSlots :
             ( /\ link[l].pc = "idle"
               /\ link'[l].pc = "awaitRedeem"
               /\ MapHas(verificationCodes, link'[l].code)
               /\ now <= verificationCodes[link'[l].code].expires ) =>
                 link'[l].uuid = verificationCodes[link'[l].code].uuid ]_vars
    /\ [][ \A l \in LinkSlots :
             (link[l].pc = "awaitRedeem" /\ link[l].uuid # "" /\ link'[l] # link[l]) =>
                 /\ DOMAIN uuidDiscordMap' = DOMAIN uuidDiscordMap \cup {link[l].uuid}
                 /\ \A u \in DOMAIN uuidDiscordMap' :
                        uuidDiscordMap'[u] = IF u = link[l].uuid THEN link[l].user
                                             ELSE uuidDiscordMap[u] ]_vars

\* C17 witness: two codes with different strings were issued for one uuid and
\* both were redeemed; its channel was granted to U1 and then to U2, and the
\* uuid is linked to U2
C17_Witness ==
    /\ Len(issues) = 2
    /\ issues[1].uuid = issues[2].uuid
    /\ issues[1].code # issues[2].code
    /\ redeemed[1] = 1
    /\ redeemed[2] = 1
    /\ LinkedUserOf(issues[1].uuid) = "U2"
    /\ ChannelIdOf(issues[1].uuid) = 1
    /\ 1 \in channels
    /\ Len(chanOverwrites[1]) = 4
    /\ chanOverwrites[1][3].id = "U1"
    /\ chanOverwrites[1][4].id = "U2"
    /\ \A l \in LinkSlots : link[l].pc = "idle"

----------------------------------------------------------------------------
(* Properties checked under SpecServer *)

\* C18 as stated: no step removes a uuid's entry from the channel registry:
\* a uuid that has an entry has one in every later state.
C18_NoEviction ==
    [][ \A u \in DOMAIN uuidChannelMap : MapHas(uuidChannelMap', u) ]_vars

----------------------------------------------------------------------------
(* Further properties checked under SpecCodes *)

\* C19: every entry of the store holds the uuid and the expiry of its own
\* issuance, and resolves to that uuid while now <= expires.  An entry is
\* removed or replaced only by a redemption presenting its own code, by a
\* timer of its own code, or by a later issuance of the same string: issuing
\* another code, for the same uuid or not, leaves it as it is.
C19_SecondCodeKeepsFirst ==
    /\ [](\A c \in DOMAIN verificationCodes :
             LET e == verificationCodes[c] IN
             /\ e.iss \in 1..Len(issues)
             /\ issues[e.iss].code = c
             /\ e.uuid = issues[e.iss].uuid
             /\ e.expires = issues[e.iss].at + TTL
             /\ now <= e.expires => getUuidByCodeResult(verificationCodes, c, now) = e.uuid)
    /\ [][ \A c \in DOMAIN verificationCodes :
             (~MapHas(verificationCodes', c) \/ verificationCodes'[c] # verificationCodes[c]) =>
                 \/ \E l \in LinkSlots : /\ link[l].pc = "idle"
                                         /\ link'[l].pc = "awaitRedeem"
                                         /\ link'[l].code = c
                 \/ \E t \in timers \ timers' : t.code = c
                 \/ /\ Len(issues') = Len(issues) + 1
                    /\ issues'[Len(issues')].code = c ]_vars

\* C19 witness: two codes with different strings were issued for one uuid;
\* the second has just been redeemed for that uuid while the entry of the
\* first is still in the store and live
C19_Witness ==
    /\ Len(issues) = 2
    /\ issues[1].uuid = issues[2].uuid
    /\ issues[1].code # issues[2].code
    /\ redeemed[1] = 0
    /\ redeemed[2] = 1
    /\ MapHas(verificationCodes, issues[1].code)
    /\ getUuidByCodeResult(verificationCodes, issues[1].code, now) = issues[1].uuid
    /\ \E l \in LinkSlots :
           /\ link[l].pc = "awaitRedeem"
           /\ link[l].code = issues[2].code
           /\ link[l].uuid = issues[2].uuid

----------------------------------------------------------------------------
(* Requests whose external call never returns.  The platform never answers
   the create, send and grant calls of the requests in the first slots, s1
   and l1; it answers every other call, and the event loop runs every
   callback that is ready. *)

HangCode == <<"x","7","k","2","p","q">>

NextHang ==
    \/ ClientReady
    \/ GuildAvailable
    \/ GenerateCode("u2", HangCode)
    \/ \E l \in LinkSlots : LinkStart(l, HangCode, "U1")
    \/ \E l \in LinkSlots : LinkResume(l)
    \/ \E l \in LinkSlots : ReplyReturns(l)
    \/ GrantReturns("l2")
    \/ GrantFails("l2")
    \/ \E s \in SendSlots, u \in Uuids : SendUpdateStart(s, u, "hello")
    \/ CreateReturns("s2")
    \/ CreateFails("s2")
    \/ SendReturns("s2")
    \/ SendFails("s2")

\* the continuation of an await runs as soon as the current handler returns;
\* an answer of the platform is a callback in the event loop's queue, which
\* is served in order however many other requests arrive
FairHang ==
    /\ \A l \in LinkSlots : WF_vars(LinkResume(l))
    /\ \A l \in LinkSlots : SF_vars(ReplyReturns(l))
    /\ SF_vars(GrantReturns("l2") \/ GrantFails("l2"))
    /\ SF_vars(CreateReturns("s2") \/ CreateFails("s2"))
    /\ SF_vars(SendReturns("s2") \/ SendFails("s2"))

SpecHang == InitNoAdminRole /\ [][NextHang]_vars /\ FairHang

\* C20: a request that waits for the platform holds nothing the others
\* need.  Whatever the other requests wait for, as long as no continuation
\* is queued: a /send-update, a /generate-code and (once the client is
\* connected) a /linkmc are accepted, and the answer of the platform to any waiting request is handled.  A
\* request that started while another one is suspended for ever on its
\* create, send or grant comes to its end.
C20_SuspendedRequestBlocksNoOther ==
    /\ []((\A l \in LinkSlots : link[l].pc # "awaitRedeem") =>
            /\ (\E s \in SendSlots : su[s].pc = "idle") =>
                   ENABLED (\E s \in SendSlots : SendUpdateStart(s, "u1", "hello"))
            /\ (clientUser /\ \E l \in LinkSlots : link[l].pc = "idle") =>
                   ENABLED (\E l \in LinkSlots : LinkStart(l, HangCode, "U1"))
            /\ Len(issues) < MaxIssue => ENABLED GenerateCode("u2", HangCode)
            /\ \A s \in SendSlots :
                   /\ su[s].pc = "awaitCreate" => ENABLED (CreateReturns(s) \/ CreateFails(s))
                   /\ su[s].pc = "awaitSend" => ENABLED (SendReturns(s) \/ SendFails(s))
            /\ \A l \in LinkSlots :
                   /\ link[l].pc = "awaitGrant" => ENABLED (GrantReturns(l) \/ GrantFails(l))
                   /\ AwaitingReply(l) => ENABLED ReplyReturns(l))
    /\ (su["s2"].pc # "idle") ~> (su["s2"].pc = "idle")
    /\ (link["l2"].pc # "idle") ~> (link["l2"].pc = "idle")

\* C20 witness: the /send-update of slot s1 is suspended on its create and
\* the /linkmc of slot l1 on its grant; meanwhile a /send-update for another
\* uuid has created the channel of that grant and has ended, and a second
\* /linkmc, which presented the spent code, is at its reply
C20_Witness ==
    /\ su["s1"].pc = "awaitCreate"
    /\ su["s2"].pc = "idle"
    /\ link["l1"].pc = "awaitGrant"
    /\ link["l1"].channel \in channels
    /\ created[link["l1"].channel] # su["s1"].uuid
    /\ redeemed[1] = 1
    /\ link["l2"].pc = "awaitReplyInvalid"

----------------------------------------------------------------------------
(* Case of the code (part_000:129 and 222) *)

\* p and c are the same string up to the case of their letters
SameIgnoringCase(p, c) ==
    /\ Len(p) = Len(c)
    /\ \A i \in 1..Len(p) :
           \/ p[i] = c[i]
           \/ \E j \in 1..Len(LowerChars) : {p[i], c[i]} = {LowerChars[j], UpperChars[j]}

\* C21: every key of the store is in upper case, and for every issued code
\* whose entry is in the store, a /linkmc presenting any case variant of it
\* looks up the same key, resolves the same uuid, leaves the same store and
\* consumes the same issuance as one presenting the code as it was issued.
C21_CaseInsensitiveRedemption ==
    /\ \A c \in DOMAIN verificationCodes :
           \A i \in 1..Len(c) : \A j \in 1..Len(LowerChars) : c[i] # LowerChars[j]
    /\ \A n \in 1..Len(issues) :
           LET c == issues[n].code IN
           MapHas(verificationCodes, c) =>
               \A p \in PresentedCodes :
                   SameIgnoringCase(p, c) =>
                       /\ toUpperCase(p) = toUpperCase(c)
                       /\ getUuidByCodeResult(verificationCodes, toUpperCase(p), now)
                              = getUuidByCodeResult(verificationCodes, toUpperCase(c), now)
                       /\ getUuidByCodeResult(verificationCodes, toUpperCase(p), now)
                              = (IF now > verificationCodes[c].expires
                                 THEN "" ELSE verificationCodes[c].uuid)
                       /\ getUuidByCodeStore(verificationCodes, toUpperCase(p), now)
                              = MapDelete(verificationCodes, c)
                       /\ CountRedeem(redeemed, verificationCodes, toUpperCase(p), now)
                              = CountRedeem(redeemed, verificationCodes, toUpperCase(c), now)

\* C21 witness: a live entry of the store has a case variant, different from
\* the code as issued, that a user may present, and presenting it resolves
\* the entry's uuid
C21_Witness ==
    \E n \in 1..Len(issues) : \E p \in PresentedCodes :
        /\ MapHas(verificationCodes, issues[n].code)
        /\ p # issues[n].code
        /\ SameIgnoringCase(p, issues[n].code)
        /\ getUuidByCodeResult(verificationCodes, toUpperCase(p), now) = issues[n].uuid
        /\ issues[n].uuid # ""

----------------------------------------------------------------------------
(* The overwrites of a create call *)

\* C22 as stated: the overwrites a /send-update passes to
\* guild.channels.create are, in this order, deny-view for the guild id,
\* full access for the bot, allow for the admin role exactly when one is
\* configured, allow for the linked user exactly when the uuid is linked at
\* the moment the overwrites are built; no other subject.
C22_CreateOverwrites ==
    [][ \A s \in SendSlots :
          (su[s].pc = "idle" /\ su'[s].pc = "awaitCreate") =>
              su'[s].perms =
                  << [id |-> GUILD_ID, allow |-> {}, deny |-> {"ViewChannel"}],
                     [id |-> BOT_ID,
                      allow |-> {"ViewChannel", "SendMessages", "EmbedLinks",
                                 "ReadMessageHistory", "ManageMessages"},
                      deny |-> {}] >>
                  \o (IF adminRole # ""
                      THEN << [id |-> adminRole,
                               allow |-> {"ViewChannel", "ReadMessageHistory", "SendMessages"},
                               deny |-> {}] >>
                      ELSE << >>)
                  \o (IF MapHas(uuidDiscordMap, su'[s].uuid)
                      THEN << [id |-> uuidDiscordMap[su'[s].uuid],
                               allow |-> {"ViewChannel", "ReadMessageHistory", "SendMessages"},
                               deny |-> {}] >>
                      ELSE << >>) ]_vars

----------------------------------------------------------------------------
(* The expiry timers while time passes.  Codes are issued for one uuid as
   long as the clock of the model can still reach their expiry; /linkmc
   requests, with a valid code or not, arrive at any moment. *)

NextTimer ==
    \/ ClientReady
    \/ Tick
    \/ \E r \in RandomStrings : now + TTL <= MaxTicks * TickMs /\ GenerateCode("u1", r)
    \/ \E t \in timers : TimerFires(t)
    \/ \E l \in LinkSlots, p \in PresentedCodes : LinkStart(l, p, "U1")
    \/ \E l \in LinkSlots : LinkResume(l)
    \/ \E l \in LinkSlots : ReplyReturns(l)

\* time passes, and the event loop runs a timer that is due in its next
\* timers phase, however many requests arrive; the continuation of an await
\* runs as soon as the handler has returned
FairTimer ==
    /\ SF_vars(Tick)
    /\ SF_vars(\E t \in timers : TimerFires(t))
    /\ \A l \in LinkSlots : WF_vars(LinkResume(l))

SpecTimer == InitNoAdminRole /\ [][NextTimer]_vars /\ FairTimer

\* C23: every entry of the store has the timer of its own issuance pending,
\* due at the entry's expiry; and the entry of every issuance is eventually
\* out of the store, whether or not its code is ever presented.
C23_EveryCodeEventuallyRemoved ==
    /\ [](\A c \in DOMAIN verificationCodes :
             \E t \in timers : /\ t.code = c
                               /\ t.iss = verificationCodes[c].iss
                               /\ t.fireAt = verificationCodes[c].expires)
    /\ \A n \in 1..MaxIssue :
           (Len(issues) >= n /\ MapHas(verificationCodes, issues[n].code)
                             /\ verificationCodes[issues[n].code].iss = n)
           ~> ~(Len(issues) >= n /\ MapHas(verificationCodes, issues[n].code)
                                 /\ verificationCodes[issues[n].code].iss = n)

\* C23 witness: a code was issued and never redeemed, no /linkmc is running,
\* its timer has fired at or after its expiry and its entry is gone
C23_Witness ==
    /\ Len(issues) = 1
    /\ redeemed[1] = 0
    /\ \A l \in LinkSlots : link[l].pc = "idle"
    /\ now >= issues[1].at + TTL
    /\ ~MapHas(verificationCodes, issues[1].code)
    /\ timers = {}

----------------------------------------------------------------------------
(* Order of the steps of a /send-update that creates a channel *)

\* C24: a request issues its send only in the step in which its create has
\* returned or its lookup has found a channel.  When the create returns, the
\* channel exists, the registry holds for the request's uuid the id that
\* this create returned, the write is the request's first, and the send
\* goes to that id.  Whenever a send is issued, the registry holds an entry
\* for the uuid and the send goes to the channel of that entry.
C24_CreateWriteSend ==
    [][ \A s \in SendSlots :
          /\ (su[s].pc = "awaitCreate" /\ su'[s].pc = "awaitSend") =>
                 /\ Len(created') = Len(created) + 1
                 /\ created'[Len(created')] = su[s].uuid
                 /\ Len(created') \in channels'
                 /\ su[s].nWrite = 0 /\ su[s].nSend = 0
                 /\ su'[s].nWrite = 1 /\ su'[s].nSend = 1
                 /\ MapHas(uuidChannelMap', su[s].uuid)
                 /\ uuidChannelMap'[su[s].uuid] = Len(created')
                 /\ su'[s].channel = Len(created')
          /\ (su[s].pc # "awaitSend" /\ su'[s].pc = "awaitSend") =>
                 /\ MapHas(uuidChannelMap', su'[s].uuid)
                 /\ uuidChannelMap'[su'[s].uuid] = su'[s].channel
          /\ su'[s].nSend > su[s].nSend => su'[s].pc = "awaitSend" /\ su[s].pc # "awaitSend"
          /\ su[s].pc = "awaitCreate" => su[s].nSend = 0 /\ su[s].nWrite = 0 ]_vars

\* C24 witness: a request has created a channel, written its id under its
\* uuid and issued its send to it
C24_Witness ==
    \E s \in SendSlots :
        /\ su[s].pc = "awaitSend"
        /\ su[s].nCreate = 1 /\ su[s].nWrite = 1 /\ su[s].nSend = 1
        /\ su[s].channel \in channels
        /\ created[su[s].channel] = su[s].uuid
        /\ uuidChannelMap[su[s].uuid] = su[s].channel

----------------------------------------------------------------------------
(* What each handler leaves alone *)

\* C25: the link registry changes only in the step of a /linkmc whose
\* redemption returned a uuid, by setting that uuid to the invoking user,
\* and no uuid ever leaves it.  A step of a /send-update changes neither
\* the link registry nor the code store.  The channel registry changes only
\* in a step of a /send-update: no step of a /generate-code or a /linkmc
\* changes it.
C25_FrameOfRegistries ==
    [][ /\ \A u \in DOMAIN uuidDiscordMap : MapHas(uuidDiscordMap', u)
        /\ uuidDiscordMap' # uuidDiscordMap =>
               \E l \in LinkSlots :
                   /\ link[l].pc = "awaitRedeem"
                   /\ link'[l].pc # "awaitRedeem"
                   /\ link[l].uuid # ""
                   /\ uuidDiscordMap' = MapSet(uuidDiscordMap, link[l].uuid, link[l].user)
        /\ su' # su => /\ uuidDiscordMap' = uuidDiscordMap
                       /\ verificationCodes' = verificationCodes
        /\ issues' # issues => /\ uuidDiscordMap' = uuidDiscordMap
                               /\ uuidChannelMap' = uuidChannelMap
        /\ link' # link => uuidChannelMap' = uuidChannelMap
        /\ uuidChannelMap' # uuidChannelMap => su' # su ]_vars

\* C25 witness: the three handlers have run: a code was issued, a channel
\* was created and recorded, and a /linkmc that redeemed the code has linked
\* its uuid to its user
C25_Witness ==
    \E l \in LinkSlots :
        /\ link[l].pc = "awaitGrant"
        /\ Len(issues) >= 1
        /\ redeemed[1] = 1
        /\ MapHas(uuidDiscordMap, issues[1].uuid)
        /\ uuidDiscordMap[issues[1].uuid] = link[l].user
        /\ MapHas(uuidChannelMap, issues[1].uuid)
        /\ Len(created) >= 1

----------------------------------------------------------------------------
(* A send that fails after the create *)

\* C26: when the send of a request that has created a channel fails, the
\* request answers 500 and the step leaves the registry as it is, with an
\* entry for the uuid.  When the next step is a /send-update for the same
\* uuid that gets past the session and guild checks, and the recorded
\* channel still exists, that request creates nothing and sends to the
\* recorded channel.
C26_SendFailureKeepsEntry ==
    [][ /\ \A s \in SendSlots :
              (su[s].pc = "awaitSend" /\ su[s].nCreate = 1
                  /\ out'.kind = "response" /\ out'.uuid = su[s].uuid
                  /\ su'[s].pc = "idle" /\ out'.status # 200) =>
                  /\ out'.status = 500
                  /\ out'.error = "send"
                  /\ out'.nCreate = 1 /\ out'.nWrite = 1 /\ out'.nSend = 1
                  /\ uuidChannelMap' = uuidChannelMap
                  /\ MapHas(uuidChannelMap', su[s].uuid)
                  /\ created' = created
        /\ (out.kind = "response" /\ out.status = 500 /\ out.error = "send"
               /\ out.nCreate = 1) =>
              \A s \in SendSlots :
                  (su[s].pc = "idle" /\ su'[s].pc # "idle" /\ su'[s].uuid = out.uuid
                      /\ uuidChannelMap[out.uuid] \in channels) =>
                      /\ su'[s].pc = "awaitSend"
                      /\ su'[s].nCreate = 0
                      /\ su'[s].nSend = 1
                      /\ su'[s].channel = uuidChannelMap[out.uuid]
                      /\ created' = created ]_vars

\* C26 witness: a request that created a channel has just answered 500
\* because its send failed; the registry holds the new channel for its uuid,
\* the channel exists, and nothing else is running, so that a retry finds it
C26_Witness ==
    /\ out.kind = "response"
    /\ out.status = 500
    /\ out.error = "send"
    /\ out.nCreate = 1
    /\ MapHas(uuidChannelMap, out.uuid)
    /\ uuidChannelMap[out.uuid] \in channels
    /\ created[uuidChannelMap[out.uuid]] = out.uuid
    /\ clientUser /\ guildCached
    /\ \A s \in SendSlots : su[s].pc = "idle"

----------------------------------------------------------------------------
(* Two issuances of one string *)

\* C27: when a /generate-code issues a string the store has an entry for,
\* the entry is replaced: after the step the code holds and resolves the
\* uuid of the new issuance, with the expiry of the new issuance.  In every
\* state an entry belongs to the latest issuance of its string, so the uuid
\* of an earlier issuance is not reached through it.
C27_CollisionOverwrites ==
    /\ [][ (Len(issues') = Len(issues) + 1) =>
              LET n == Len(issues')
                  c == issues'[n].code
              IN  /\ MapHas(verificationCodes', c)
                  /\ verificationCodes'[c].uuid = issues'[n].uuid
                  /\ verificationCodes'[c].expires = now + TTL
                  /\ verificationCodes'[c].iss = n
                  /\ getUuidByCodeResult(verificationCodes', c, now') = issues'[n].uuid
                  /\ DOMAIN verificationCodes' = DOMAIN verificationCodes \cup {c} ]_vars
    /\ [](\A c \in DOMAIN verificationCodes : \A n \in 1..Len(issues) :
             issues[n].code = c => /\ n <= verificationCodes[c].iss
                                   /\ (n < verificationCodes[c].iss =>
                                          verificationCodes[c].uuid
                                              = issues[verificationCodes[c].iss].uuid))

\* C27 witness: a string was issued for one uuid and, while its entry was
\* live and unredeemed, issued again for another uuid; the store holds one
\* entry for the string, with the second uuid
C27_Witness ==
    /\ Len(issues) = 2
    /\ issues[1].code = issues[2].code
    /\ issues[1].uuid # issues[2].uuid
    /\ issues[2].at < issues[1].at + TTL
    /\ redeemed[1] = 0
    /\ MapHas(verificationCodes, issues[2].code)
    /\ verificationCodes[issues[2].code].uuid = issues[2].uuid
    /\ getUuidByCodeResult(verificationCodes, issues[1].code, now) = issues[2].uuid

----------------------------------------------------------------------------
(* Who has access to a uuid's channel *)

\* the subjects that the overwrites of channel c allow to view it
AllowedToView(c) ==
    { chanOverwrites[c][i].id : i \in { j \in 1..Len(chanOverwrites[c]) :
                                          "ViewChannel" \in chanOverwrites[c][j].allow } }

\* C28 as stated: when no request is in flight, the user a uuid is linked to
\* is allowed to view the channel recorded for that uuid, if that channel
\* exists.
C28_LinkedUserHasAccess ==
    ((\A s \in SendSlots : su[s].pc = "idle") /\ (\A l \in LinkSlots : link[l].pc = "idle")) =>
        \A u \in DOMAIN uuidDiscordMap :
            (MapHas(uuidChannelMap, u) /\ uuidChannelMap[u] \in channels) =>
                uuidDiscordMap[u] \in AllowedToView(uuidChannelMap[u])

\* C29 as stated: of the users, only the one a uuid is linked to is allowed
\* to view the channel recorded for that uuid.
C29_OnlyLinkedUserHasAccess ==
    \A u \in DOMAIN uuidChannelMap :
        uuidChannelMap[u] \in channels =>
            \A usr \in AllowedToView(uuidChannelMap[u]) \cap Users :
                MapHas(uuidDiscordMap, u) /\ uuidDiscordMap[u] = usr

----------------------------------------------------------------------------
(* How long an entry lives *)

\* C30 as stated: a code that is in the store before its expiry leaves the
\* store only in the step of a /linkmc that presents it; in particular no
\* timer removes it.  (The replacement of an entry by a later issuance of
\* the same string keeps the code in the store and is not counted here.)
C30_EntryLivesUntilExpiry ==
    [][ \A c \in DOMAIN verificationCodes :
          (now < verificationCodes[c].expires /\ ~MapHas(verificationCodes', c)) =>
              \E l \in LinkSlots : /\ link[l].pc = "idle"
                                    /\ link'[l].pc = "awaitRedeem"
                                    /\ link'[l].code = c ]_vars

----------------------------------------------------------------------------
(* The channel of a successful response *)

\* C31 as stated: when a /send-update answers 200, the channel id of the
\* response, which is the channel the message was sent to, is the channel
\* the registry holds for the request's uuid at that moment.
C31_ResponseChannelIsRecorded ==
    (out.kind = "response" /\ out.status = 200) =>
        /\ MapHas(uuidChannelMap, out.uuid)
        /\ uuidChannelMap[out.uuid] = out.channelId

\* C32: two different uuids never have the same channel id in the registry;
\* every channel id in the registry was returned by a create made for that
\* uuid; and a send that is in flight goes to a channel created for the
\* request's own uuid, which the registry records for no other uuid.
C32_DistinctUuidsDistinctChannels ==
    /\ \A u \in DOMAIN uuidChannelMap : \A v \in DOMAIN uuidChannelMap :
           u # v => uuidChannelMap[u] # uuidChannelMap[v]
    /\ \A u \in DOMAIN uuidChannelMap :
           /\ uuidChannelMap[u] \in 1..Len(created)
           /\ created[uuidChannelMap[u]] = u
    /\ \A s \in SendSlots :
           su[s].pc = "awaitSend" =>
               /\ su[s].channel \in 1..Len(created)
               /\ created[su[s].channel] = su[s].uuid
               /\ \A v \in DOMAIN uuidChannelMap :
                      v # su[s].uuid => uuidChannelMap[v] # su[s].channel

\* C32 witness: two uuids have a channel each in the registry and a message
\* for one of them is being sent
C32_Witness ==
    \E u \in DOMAIN uuidChannelMap : \E v \in DOMAIN uuidChannelMap :
        /\ u # v
        /\ uuidChannelMap[u] # uuidChannelMap[v]
        /\ \E s \in SendSlots : /\ su[s].pc = "awaitSend"
                                 /\ su[s].uuid = u
                                 /\ su[s].channel = uuidChannelMap[u]

----------------------------------------------------------------------------
(* /send-update when the platform answers every call: each create and each
   send that a request waits for eventually resolves or rejects. *)

FairRespond ==
    /\ \A s \in SendSlots : WF_vars(CreateReturns(s) \/ CreateFails(s))
    /\ \A s \in SendSlots : WF_vars(SendReturns(s) \/ SendFails(s))

SpecRespond == Init /\ [][NextSend]_vars /\ FairRespond

\* the answers of /send-update the claim lists: status and error
SendUpdateAnswers ==
    { <<400, "missing">>, <<503, "notConnected">>, <<500, "guild">>,
      <<500, "create">>, <<500, "send">>, <<200, "">> }

\* C33: every response of /send-update is one of the six answers 400, 503,
\* 500 (guild), 500 (create), 500 (send), 200.  A request that is waiting
\* ends only in a step that answers it, and that step ends no other request;
\* a step that starts a request and leaves it waiting, or moves a request
\* from one wait to the next, answers nothing; a request that ends in the
\* step it starts in is answered in that step.  Every waiting request
\* eventually ends, so it is answered once: never twice, and never not at
\* all.  The handler fails the first part: a uuid that is truthy and is not a
\* string is answered by the outer catch with 500 'Internal server error'.
C33_ExactlyOneOfSixAnswers ==
    /\ [][ /\ out'.kind = "response" =>
                  <<out'.status, out'.error>> \in SendUpdateAnswers
           /\ \A s \in SendSlots :
                  /\ (su[s].pc # "idle" /\ su'[s].pc = "idle") =>
                         /\ out'.kind = "response"
                         /\ out'.uuid = su[s].uuid
                         /\ out'.message = su[s].message
                         /\ <<out'.status, out'.error>> \in
                                (IF su[s].pc = "awaitCreate"
                                 THEN { <<500, "create">> }
                                 ELSE { <<500, "send">>, <<200, "">> })
                         /\ \A s2 \in SendSlots \ {s} : su'[s2] = su[s2]
                  /\ (su[s].pc # "idle" /\ su'[s].pc # "idle" /\ su'[s] # su[s]) =>
                         out'.kind # "response"
                  /\ (su[s].pc = "idle" /\ su'[s].pc # "idle") => out'.kind # "response"
           /\ (out'.kind = "response" /\ \A s \in SendSlots : su[s].pc = "idle" <=> su'[s].pc = "idle") =>
                  /\ su' = su
                  /\ <<out'.status, out'.error>> \in
                         { <<400, "missing">>, <<503, "notConnected">>, <<500, "guild">> } ]_vars
    /\ \A s \in SendSlots : (su[s].pc # "idle") ~> (su[s].pc = "idle")

====
